---- MODULE Spec2Model ----
(***************************************************************************)
(* Model of the jackal s2s federation link server (src/router/config.go,  *)
(* package s2s, lines 48-184) and of the asynchronous logger              *)
(* (src/log/log.go).                                                       *)
(*                                                                         *)
(* DialSpec : the outbound registry: getOrDial and unregisterOutStream     *)
(*            under concurrent callers.                                    *)
(* Spec     : the server's lifecycle: start/listenConn, stop, the inbound  *)
(*            registry, and a goroutine dialling.                          *)
(* ListenSpec : the listener alone (no dialling), with the scheduling the  *)
(*            accept loop's termination rests on.                          *)
(* LogSpec  : the logger: writeLog, loop, Shutdown.                        *)
(* LogFairSpec : LogSpec with its goroutines scheduled.                    *)
(* LogTextSpec : the logger's two outputs, for texts with and without '%'. *)
(* C2sSpec  : the c2s subsystem's Initialize and Shutdown (src/c2s/c2s.go).*)
(*                                                                         *)
(* The stream types (inStream, outStream) are not part of the sources at   *)
(* hand; their behaviour follows the Stream capability of the design       *)
(* document: a stream terminates at most once and then invokes its         *)
(* unregister callback exactly once. A stream that has terminated but      *)
(* whose callback has not yet run is, to the server, a live stream: the    *)
(* stream's end and its callback are one step.                             *)
(***************************************************************************)
EXTENDS Integers, Sequences, FiniteSets, TLC

\* ------------------------------------------------------------ bounds

\* concurrent goroutines calling getOrDial
NumCallers == 2
\* outbound streams that are ever stored in outConns
MaxHandles == 3
\* inbound connections the accept loop ever accepts
MaxInStreams == 2
\* goroutines calling stop()
NumStoppers == 2

\* capacity of the logger's record channel. The code's logChanBufferSize is
\* 512 (log.go:22); the model scales it down, and nothing depends on the
\* number but whether the channel is full.
LogChanBufferSize == 2
\* goroutines calling the log functions
NumLoggers == 2
\* records the log functions ever create
MaxRecords == 3

\* goroutines calling c2s.Initialize
NumInitializers == 2
\* goroutines calling c2s.Shutdown
NumShutdowns == 2

Callers == 1..NumCallers
\* domainPair := localDomain + ":" + remoteDomain
Pairs == {"a.org:b.org", "a.org:c.org"}
Handles == 1..MaxHandles
InIds == 1..MaxInStreams
Stoppers == 1..NumStoppers
Loggers == 1..NumLoggers
Records == 1..MaxRecords
Initializers == 1..NumInitializers
Shutdowns == 1..NumShutdowns
\* the cfg.ID of the c2s server configurations
ServerIds == {"c2s-a", "c2s-b"}

\* the nil stream / absent map entry
None == 0

\* the domain pair of a stream or call that has none yet
NoPair == ""

VARIABLES
    \* ---- s2s server (type server, config.go:71-80)
    listening,      \* server.listening: 0 or 1
    ln,             \* server.ln: "nil", "open", "closed"
    outConns,       \* server.outConns: [Pairs -> Handles \cup {None}]
    inConns,        \* server.inConns: the set of registered inbound stream ids
    \* ---- goroutines
    proc,           \* the process: "running", "exited" (os.Exit), "panicked"
    startPc,        \* position of the start() goroutine
    spc,            \* [Stoppers -> position of a stop() call]; "noop": lost the CAS and returned
    sres,           \* [Stoppers -> "none", "nil", "err"]: what stop() returned
    sweepVisited,   \* inbound streams the winning stop() has sent Disconnect(ErrSystemShutdown)
    cpc,            \* [Callers -> position of a getOrDial call]
    cpair,          \* [Callers -> the call's domain pair]
    cstm,           \* [Callers -> the stream LoadOrStore gave the call]
    cres,           \* [Callers -> "none", "ok", "err"]: what getOrDial returned
    \* ---- streams
    hstate,         \* [Handles -> "unused","pending","failed","established","closed"]
    hpair,          \* [Handles -> the outbound stream's ID(), its domain pair]
    istate,         \* [InIds -> "unused","active","closed"]
    toRegister,     \* inbound streams created by startInStream, not yet registered
    \* ---- history
    dialCount,      \* [Handles -> number of Dialer invocations made for it]
    lnCloseCount,   \* number of ln.Close() calls
    bindCount,      \* number of listenerProvider calls
    bindFailed,     \* listenerProvider returned an error
    \* ---- logger (log.go)
    inst,           \* the singleton: "nil" or "set" (initialized is inst # nil)
    exitHandler,    \* "osExit" (the default) or "flag" (a handler that returns)
    recCh,          \* Logger.recCh: the queued records, oldest first
    f,              \* Logger.f: "open" or "closed"
    fOut,           \* what was written to Logger.f, in order: [rec, line]
    outWriter,      \* what was written to Logger.outWriter, in order: [rec, line]
    exitCalls,      \* records for which the loop invoked exitHandler
    continueCh,     \* records whose continueCh is closed
    rkind,          \* [Records -> "none", "Infof", "Fatalf", "Fatal"]
    rtext,          \* [Records -> record.log, the formatted text, as a sequence of characters]
    lpc,            \* Logger.loop: "none" (not started), "select", "returned"
    shpc,           \* Shutdown: "idle", "send" (holds instMu, sending on closeCh), "done"
    wpc,            \* [Loggers -> "idle", "writeLog", "wait", "ret"]
    wkind,          \* [Loggers -> the log function called]
    winst,          \* [Loggers -> the instance the call got: "nil" or "set"]
    wrec,           \* [Loggers -> the record the call created, or None]
    \* ---- c2s (c2s.go:32-37)
    mu,             \* the package mutex: None (free) or the Initialize call holding it
    initialized,    \* the package's initialized flag
    servers,        \* the keys of the servers map
    ipc,            \* [Initializers -> "idle","init","wait","relock","close","clear","ret"]
    icfg,           \* [Initializers -> the IDs in the call's srvConfigurations]
    idone,          \* [Initializers -> the Shutdown call whose channel it received, or None]
    kpc,            \* [Shutdowns -> "idle","send","wait","ret"]
    kclosed,        \* the Shutdown calls whose channel ch has been closed
    startCount,     \* [ServerIds -> number of go srv.start()]
    shutdownCount   \* [ServerIds -> number of srv.shutdown() calls]

s2sVars == <<listening, ln, outConns, inConns, proc, startPc, spc, sres,
             sweepVisited, cpc, cpair, cstm, cres, hstate, hpair,
             istate, toRegister, dialCount, lnCloseCount,
             bindCount, bindFailed>>

logVars == <<inst, exitHandler, recCh, f, fOut, outWriter, exitCalls, continueCh,
             rkind, rtext, lpc, shpc, wpc, wkind, winst, wrec>>

c2sVars == <<mu, initialized, servers, ipc, icfg, idone, kpc, kclosed,
             startCount, shutdownCount>>

vars == <<s2sVars, logVars, c2sVars>>

\* ------------------------------------------------------------ sync.Map, atomic

\* mutant: a plain Store, which overwrites an entry that is present
LoadOrStore_Store(m, k, v) ==
    [m |-> [m EXCEPT ![k] = v], actual |-> v, loaded |-> FALSE]

\* sync.Map.LoadOrStore(k, v): the existing value if present (loaded),
\* otherwise stores and returns v.
LoadOrStore(m, k, v) ==
    IF m[k] # None
    THEN [m |-> m, actual |-> m[k], loaded |-> TRUE]
    ELSE [m |-> [m EXCEPT ![k] = v], actual |-> v, loaded |-> FALSE]

\* mutant: the delete clears the whole map
Delete_All(m, k) == [q \in DOMAIN m |-> None]

\* mutant: the delete leaves the entry in place
Delete_Noop(m, k) == m

\* sync.Map.Delete(k) on outConns
Delete(m, k) == [m EXCEPT ![k] = None]

\* mutant: the delete empties the inbound registry
DeleteIn_All(m, id) == {}

\* sync.Map.Store / Delete on inConns (keyed by stm.ID(), value the stream itself)
StoreIn(m, id) == m \cup {id}

DeleteIn(m, id) == m \ {id}

\* mutant: a plain store in place of the compare-and-swap
CompareAndSwap_Blind(cur, old, new) == [val |-> new, swapped |-> TRUE]

\* atomic.CompareAndSwapUint32(&s.listening, old, new)
CompareAndSwap(cur, old, new) ==
    IF cur = old THEN [val |-> new, swapped |-> TRUE]
    ELSE [val |-> cur, swapped |-> FALSE]

\* newOutStream / newInStream: the next stream not yet in use
FreshHandle == IF \E h \in Handles : hstate[h] = "unused"
               THEN CHOOSE h \in Handles :
                        hstate[h] = "unused" /\ \A g \in Handles : hstate[g] = "unused" => h <= g
               ELSE None

FreshInId == IF \E i \in InIds : istate[i] = "unused"
             THEN CHOOSE i \in InIds :
                      istate[i] = "unused" /\ \A j \in InIds : istate[j] = "unused" => i <= j
             ELSE None

Running == proc = "running"

\* the Stream capability: a stream that was started ends once, and invokes
\* its unregister callback as it ends
InStreamEnds(id) == istate[id] = "active"

OutStreamEnds(h) == hstate[h] = "established"

\* ------------------------------------------------------------ Init

Init ==
    /\ listening = 0
    /\ ln = "nil"
    /\ outConns = [p \in Pairs |-> None]
    /\ inConns = {}
    /\ proc = "running"
    /\ startPc = "idle"
    /\ spc = [s \in Stoppers |-> "idle"]
    /\ sres = [s \in Stoppers |-> "none"]
    /\ sweepVisited = {}
    /\ cpc = [c \in Callers |-> "idle"]
    /\ cpair = [c \in Callers |-> NoPair]
    /\ cstm = [c \in Callers |-> None]
    /\ cres = [c \in Callers |-> "none"]
    /\ hstate = [h \in Handles |-> "unused"]
    /\ hpair = [h \in Handles |-> NoPair]
    /\ istate = [i \in InIds |-> "unused"]
    /\ toRegister = {}
    /\ dialCount = [h \in Handles |-> 0]
    /\ lnCloseCount = 0
    /\ bindCount = 0
    /\ bindFailed = FALSE
    /\ inst = "nil"
    /\ exitHandler = "osExit"
    /\ recCh = <<>>
    /\ f = "open"
    /\ fOut = <<>>
    /\ outWriter = <<>>
    /\ exitCalls = {}
    /\ continueCh = {}
    /\ rkind = [r \in Records |-> "none"]
    /\ rtext = [r \in Records |-> <<>>]
    /\ lpc = "none"
    /\ shpc = "idle"
    /\ wpc = [w \in Loggers |-> "idle"]
    /\ wkind = [w \in Loggers |-> "none"]
    /\ winst = [w \in Loggers |-> "nil"]
    /\ wrec = [w \in Loggers |-> None]
    /\ mu = None
    /\ initialized = FALSE
    /\ servers = {}
    /\ ipc = [i \in Initializers |-> "idle"]
    /\ icfg = [i \in Initializers |-> {}]
    /\ idone = [i \in Initializers |-> None]
    /\ kpc = [k \in Shutdowns |-> "idle"]
    /\ kclosed = {}
    /\ startCount = [v \in ServerIds |-> 0]
    /\ shutdownCount = [v \in ServerIds |-> 0]

\* ------------------------------------------------------------ start / listenConn

startVarsUnchanged == UNCHANGED <<logVars, c2sVars, outConns, spc, sres, sweepVisited,
                                  cpc, cpair, cstm, cres, hstate, hpair,
                                  dialCount, lnCloseCount>>

\* start(): listenConn binds the socket (listenerProvider succeeds), s.ln = ln
Start_BindOk ==
    /\ Running /\ startPc = "idle"
    /\ ln' = "open"
    /\ bindCount' = bindCount + 1
    /\ startPc' = "store"
    /\ startVarsUnchanged
    /\ UNCHANGED <<listening, inConns, proc, istate, toRegister, bindFailed>>

\* mutant: listenConn goes on after a failed bind
Start_BindFail_Ignored ==
    /\ Running /\ startPc = "idle"
    /\ bindCount' = bindCount + 1
    /\ bindFailed' = TRUE
    /\ startPc' = "store"
    /\ startVarsUnchanged
    /\ UNCHANGED <<listening, ln, inConns, proc, istate, toRegister>>

\* start(): listenerProvider fails, listenConn returns the error
Start_BindFail ==
    /\ Running /\ startPc = "idle"
    /\ bindCount' = bindCount + 1
    /\ bindFailed' = TRUE
    /\ startPc' = "fatal"
    /\ startVarsUnchanged
    /\ UNCHANGED <<listening, ln, inConns, proc, istate, toRegister>>

\* start(): log.Fatalf("%v", err). With a logger installed and room in its
\* queue the exit handler ends the process; otherwise Fatalf only returns.
Start_Fatalf ==
    /\ Running /\ startPc = "fatal"
    /\ \/ proc' = "exited" /\ startPc' = "fatal"
       \/ proc' = proc /\ startPc' = "done"
    /\ startVarsUnchanged
    /\ UNCHANGED <<listening, ln, inConns, istate, toRegister, bindCount, bindFailed>>

\* listenConn: atomic.StoreUint32(&s.listening, 1)
ListenConn_Store ==
    /\ Running /\ startPc = "store"
    /\ listening' = 1
    /\ startPc' = "loop"
    /\ startVarsUnchanged
    /\ UNCHANGED <<ln, inConns, proc, istate, toRegister, bindCount, bindFailed>>

\* listenConn: the loop condition atomic.LoadUint32(&s.listening) == 1
ListenConn_Load ==
    /\ Running /\ startPc = "loop"
    /\ startPc' = IF listening = 1 THEN "accept" ELSE "done"
    /\ startVarsUnchanged
    /\ UNCHANGED <<listening, ln, inConns, proc, istate, toRegister, bindCount, bindFailed>>

\* listenConn: ln.Accept() returns a connection; go s.startInStream(...) runs
\* newInStream, whose stream is live from then on.
ListenConn_AcceptConn ==
    /\ Running /\ startPc = "accept" /\ ln = "open"
    /\ FreshInId # None
    /\ istate' = [istate EXCEPT ![FreshInId] = "active"]
    /\ toRegister' = toRegister \cup {FreshInId}
    /\ startPc' = "loop"
    /\ startVarsUnchanged
    /\ UNCHANGED <<listening, ln, inConns, proc, bindCount, bindFailed>>

\* mutant: an accept error ends the loop
ListenConn_AcceptErr_Exit ==
    /\ Running /\ startPc = "accept"
    /\ startPc' = "done"
    /\ startVarsUnchanged
    /\ UNCHANGED <<listening, ln, inConns, proc, istate, toRegister, bindCount, bindFailed>>

\* listenConn: ln.Accept() returns an error (the listener was closed, or a
\* transient error): the loop goes on to its condition.
ListenConn_AcceptErr ==
    /\ Running /\ startPc = "accept"
    /\ startPc' = "loop"
    /\ startVarsUnchanged
    /\ UNCHANGED <<listening, ln, inConns, proc, istate, toRegister, bindCount, bindFailed>>

\* ------------------------------------------------------------ inbound registry

inVarsUnchanged == UNCHANGED <<logVars, c2sVars, listening, ln, outConns, proc, startPc, spc, sres,
                               sweepVisited, cpc, cpair, cstm, cres,
                               hstate, hpair, dialCount, lnCloseCount,
                               bindCount, bindFailed>>

\* startInStream -> registerInStream(stm): s.inConns.Store(stm.ID(), stm)
RegisterInStream(id) ==
    /\ Running /\ id \in toRegister
    /\ inConns' = StoreIn(inConns, id)
    /\ toRegister' = toRegister \ {id}
    /\ inVarsUnchanged
    /\ UNCHANGED istate

\* an inbound stream ends (peer closed, stream error, or Disconnect) and
\* invokes onInDisconnect: unregisterInStream(stm): s.inConns.Delete(stm.ID())
UnregisterInStream(id) ==
    /\ Running /\ InStreamEnds(id)
    /\ istate' = [istate EXCEPT ![id] = "closed"]
    /\ inConns' = DeleteIn(inConns, id)
    /\ inVarsUnchanged
    /\ UNCHANGED toRegister

\* ------------------------------------------------------------ getOrDial

dialVarsUnchanged == UNCHANGED <<logVars, c2sVars, listening, ln, inConns, proc, startPc, spc, sres,
                                 sweepVisited, istate, toRegister,
                                 lnCloseCount, bindCount, bindFailed>>

\* getOrDial: s.outConns.LoadOrStore(domainPair, newOutStream(s.router)).
\* A caller that finds the pair loaded returns the stored stream at once.
GetOrDial_LoadOrStore(c, p) ==
    /\ Running /\ cpc[c] \in {"idle", "done"}
    /\ outConns[p] = None => FreshHandle # None
    /\ LET r == LoadOrStore(outConns, p, FreshHandle) IN
        /\ outConns' = r.m
        /\ cstm' = [cstm EXCEPT ![c] = r.actual]
        /\ cpair' = [cpair EXCEPT ![c] = p]
        /\ IF r.loaded
           THEN /\ cpc' = [cpc EXCEPT ![c] = "done"]
                /\ cres' = [cres EXCEPT ![c] = "ok"]
                /\ UNCHANGED <<hstate, hpair>>
           ELSE /\ cpc' = [cpc EXCEPT ![c] = "dial"]
                /\ cres' = [cres EXCEPT ![c] = "none"]
                /\ hstate' = [hstate EXCEPT ![r.actual] = "pending"]
                /\ hpair' = [hpair EXCEPT ![r.actual] = p]
    /\ dialVarsUnchanged
    /\ UNCHANGED dialCount

\* getOrDial: s.dialer.dial(localDomain, remoteDomain) succeeds
GetOrDial_DialOk(c) ==
    /\ Running /\ cpc[c] = "dial"
    /\ dialCount' = [dialCount EXCEPT ![cstm[c]] = @ + 1]
    /\ cpc' = [cpc EXCEPT ![c] = "start"]
    /\ dialVarsUnchanged
    /\ UNCHANGED <<outConns, cpair, cstm, cres, hstate, hpair>>

\* getOrDial: s.dialer.dial fails; log.Error(err)
GetOrDial_DialFail(c) ==
    /\ Running /\ cpc[c] = "dial"
    /\ dialCount' = [dialCount EXCEPT ![cstm[c]] = @ + 1]
    /\ hstate' = [hstate EXCEPT ![cstm[c]] = "failed"]
    /\ cpc' = [cpc EXCEPT ![c] = "rollback"]
    /\ dialVarsUnchanged
    /\ UNCHANGED <<outConns, cpair, cstm, cres, hpair>>

\* mutant: the failed dial returns the error without the rollback
GetOrDial_Rollback_NoDelete(c) ==
    /\ Running /\ cpc[c] = "rollback"
    /\ cstm' = [cstm EXCEPT ![c] = None]
    /\ cres' = [cres EXCEPT ![c] = "err"]
    /\ cpc' = [cpc EXCEPT ![c] = "done"]
    /\ dialVarsUnchanged
    /\ UNCHANGED <<outConns, cpair, hstate, hpair, dialCount>>

\* getOrDial: s.outConns.Delete(domainPair); return nil, err
GetOrDial_Rollback(c) ==
    /\ Running /\ cpc[c] = "rollback"
    /\ outConns' = Delete(outConns, cpair[c])
    /\ cstm' = [cstm EXCEPT ![c] = None]
    /\ cres' = [cres EXCEPT ![c] = "err"]
    /\ cpc' = [cpc EXCEPT ![c] = "done"]
    /\ dialVarsUnchanged
    /\ UNCHANGED <<cpair, hstate, hpair, dialCount>>

\* getOrDial: outCfg.onOutDisconnect = s.unregisterOutStream;
\* stm.start(outCfg); return stm, nil
GetOrDial_Start(c) ==
    /\ Running /\ cpc[c] = "start"
    /\ hstate' = [hstate EXCEPT ![cstm[c]] = "established"]
    /\ cres' = [cres EXCEPT ![c] = "ok"]
    /\ cpc' = [cpc EXCEPT ![c] = "done"]
    /\ dialVarsUnchanged
    /\ UNCHANGED <<outConns, cpair, cstm, hpair, dialCount>>

\* mutant: a stream's callback runs again after the stream has ended
UnregisterOutStream_Twice(h) ==
    /\ Running /\ hstate[h] \in {"established", "closed"}
    /\ hstate' = [hstate EXCEPT ![h] = "closed"]
    /\ outConns' = Delete(outConns, hpair[h])
    /\ dialVarsUnchanged
    /\ UNCHANGED <<cpc, cpair, cstm, cres, hpair, dialCount>>

\* a started outbound stream ends (peer closed, stream error, or Disconnect)
\* and invokes onOutDisconnect: unregisterOutStream(stm):
\* s.outConns.Delete(stm.ID())
UnregisterOutStream(h) ==
    /\ Running /\ OutStreamEnds(h)
    /\ hstate' = [hstate EXCEPT ![h] = "closed"]
    /\ outConns' = Delete(outConns, hpair[h])
    /\ dialVarsUnchanged
    /\ UNCHANGED <<cpc, cpair, cstm, cres, hpair, dialCount>>

\* ------------------------------------------------------------ stop

stopVarsUnchanged == UNCHANGED <<logVars, c2sVars, outConns, startPc, cpc, cpair, cstm, cres, hstate,
                                 hpair, toRegister, dialCount, bindCount,
                                 bindFailed>>

\* stop(): atomic.CompareAndSwapUint32(&s.listening, 1, 0); the loser
\* skips the body and returns nil
Stop_CAS(s) ==
    /\ Running /\ spc[s] = "idle"
    /\ LET r == CompareAndSwap(listening, 1, 0) IN
        /\ listening' = r.val
        /\ IF r.swapped
           THEN /\ spc' = [spc EXCEPT ![s] = "close"]
                /\ sres' = sres
           ELSE /\ spc' = [spc EXCEPT ![s] = "noop"]
                /\ sres' = [sres EXCEPT ![s] = "nil"]
    /\ stopVarsUnchanged
    /\ UNCHANGED <<ln, inConns, proc, sweepVisited, istate, lnCloseCount>>

\* stop(): s.ln.Close() succeeds
Stop_Close(s) ==
    /\ Running /\ spc[s] = "close"
    /\ ln' = "closed"
    /\ lnCloseCount' = lnCloseCount + 1
    /\ spc' = [spc EXCEPT ![s] = "sweepOut"]
    /\ stopVarsUnchanged
    /\ UNCHANGED <<listening, inConns, proc, sres, sweepVisited, istate>>

\* stop(): s.ln.Close() returns an error, which stop() returns at once
Stop_CloseErr(s) ==
    /\ Running /\ spc[s] = "close"
    /\ ln' = "closed"
    /\ lnCloseCount' = lnCloseCount + 1
    /\ spc' = [spc EXCEPT ![s] = "done"]
    /\ sres' = [sres EXCEPT ![s] = "err"]
    /\ stopVarsUnchanged
    /\ UNCHANGED <<listening, inConns, proc, sweepVisited, istate>>

\* stop(): s.outConns.Range(...) with stm := v.(*inStream). The values of
\* outConns are *outStream (getOrDial stores newOutStream's result), so the
\* type assertion panics on the first entry visited.
Stop_SweepOut(s) ==
    /\ Running /\ spc[s] = "sweepOut"
    /\ IF \E p \in Pairs : outConns[p] # None
       THEN /\ proc' = "panicked"
            /\ UNCHANGED spc
       ELSE /\ proc' = proc
            /\ spc' = [spc EXCEPT ![s] = "sweepIn"]
    /\ stopVarsUnchanged
    /\ UNCHANGED <<listening, ln, inConns, sres, sweepVisited, istate, lnCloseCount>>

\* stop(): one visit of s.inConns.Range: stm.Disconnect(ErrSystemShutdown).
\* The stream ends in a later step (UnregisterInStream).
Stop_SweepIn(s, id) ==
    /\ Running /\ spc[s] = "sweepIn"
    /\ id \in inConns \ sweepVisited
    /\ sweepVisited' = sweepVisited \cup {id}
    /\ stopVarsUnchanged
    /\ UNCHANGED <<listening, ln, inConns, proc, spc, sres, istate, lnCloseCount>>

\* stop(): s.inConns.Range has visited every entry; return nil. (An entry
\* stored after this step is one the Range missed.)
Stop_Return(s) ==
    /\ Running /\ spc[s] = "sweepIn"
    /\ inConns \subseteq sweepVisited
    /\ spc' = [spc EXCEPT ![s] = "done"]
    /\ sres' = [sres EXCEPT ![s] = "nil"]
    /\ stopVarsUnchanged
    /\ UNCHANGED <<listening, ln, inConns, proc, sweepVisited, istate, lnCloseCount>>

\* ------------------------------------------------------------ specifications

\* the outbound registry under concurrent callers: getOrDial,
\* unregisterOutStream and the outbound streams' own termination
DialNext ==
    \/ \E c \in Callers, p \in Pairs : GetOrDial_LoadOrStore(c, p)
    \/ \E c \in Callers : GetOrDial_DialOk(c)
    \/ \E c \in Callers : GetOrDial_DialFail(c)
    \/ \E c \in Callers : GetOrDial_Rollback(c)
    \/ \E c \in Callers : GetOrDial_Start(c)
    \/ \E h \in Handles : UnregisterOutStream(h)

DialSpec == Init /\ [][DialNext]_vars

\* the server's lifecycle: start, the accept loop, the inbound registry,
\* stop, and one goroutine dialling one domain pair (an outbound stream,
\* once started, stays up here: its end is DialSpec's)
ServerCallers == {1}

ServerPairs == {"a.org:b.org"}

Next ==
    \/ Start_BindOk
    \/ Start_BindFail
    \/ Start_Fatalf
    \/ ListenConn_Store
    \/ ListenConn_Load
    \/ ListenConn_AcceptConn
    \/ ListenConn_AcceptErr
    \/ \E id \in InIds : RegisterInStream(id)
    \/ \E id \in InIds : UnregisterInStream(id)
    \/ \E c \in ServerCallers, p \in ServerPairs : GetOrDial_LoadOrStore(c, p)
    \/ \E c \in ServerCallers : GetOrDial_DialOk(c)
    \/ \E c \in ServerCallers : GetOrDial_DialFail(c)
    \/ \E c \in ServerCallers : GetOrDial_Rollback(c)
    \/ \E c \in ServerCallers : GetOrDial_Start(c)
    \/ \E s \in Stoppers : Stop_CAS(s)
    \/ \E s \in Stoppers : Stop_Close(s)
    \/ \E s \in Stoppers : Stop_CloseErr(s)
    \/ \E s \in Stoppers : Stop_SweepOut(s)
    \/ \E s \in Stoppers, id \in InIds : Stop_SweepIn(s, id)
    \/ \E s \in Stoppers : Stop_Return(s)

Spec == Init /\ [][Next]_vars

\* the listener alone: start, the accept loop, the inbound registry and
\* stop, no goroutine dialling. The scheduler runs the loop's condition, and
\* Accept on a closed listener returns its error.
ListenNext ==
    \/ Start_BindOk
    \/ Start_BindFail
    \/ Start_Fatalf
    \/ ListenConn_Store
    \/ ListenConn_Load
    \/ ListenConn_AcceptConn
    \/ ListenConn_AcceptErr
    \/ \E id \in InIds : RegisterInStream(id)
    \/ \E id \in InIds : UnregisterInStream(id)
    \/ \E s \in Stoppers : Stop_CAS(s)
    \/ \E s \in Stoppers : Stop_Close(s)
    \/ \E s \in Stoppers : Stop_CloseErr(s)
    \/ \E s \in Stoppers : Stop_SweepOut(s)
    \/ \E s \in Stoppers, id \in InIds : Stop_SweepIn(s, id)
    \/ \E s \in Stoppers : Stop_Return(s)

ListenSpec ==
    /\ Init /\ [][ListenNext]_vars
    /\ WF_vars(ListenConn_Load)
    /\ WF_vars(ListenConn_AcceptErr /\ ln = "closed")


\* ------------------------------------------------------------ logger

\* the next record not yet created
FreshRecord == IF \E r \in Records : rkind[r] = "none"
               THEN CHOOSE r \in Records :
                        rkind[r] = "none" /\ \A q \in Records : rkind[q] = "none" => r <= q
               ELSE None

\* the functions that call writeLog with async = true: Infof stands for
\* Debugf, Infof, Warnf, Errorf and Error; Fatal passes true as well
Async(kind) == kind \in {"Infof", "Fatal"}

\* the level of the record a function writes
FatalLevel(kind) == kind \in {"Fatalf", "Fatal"}

\* the texts a call logs (record.log, the result of fmt.Sprintf(format,
\* args...)), as sequences of characters: one without and one with a '%'
PlainTexts == {<<"o", "k">>}

Texts == {<<"o", "k">>, <<"5", "%">>}

\* logLevelAbbreviation(rec.level), with its brackets
LogLevelAbbreviation(kind) == IF FatalLevel(kind) THEN "[FTL] " ELSE "[INF] "

\* loop: the line built in l.b for a record: the level, the text, "\n"
\* (the timestamp, glyph and caller, which hold no '%', are left out)
Line(r) == <<LogLevelAbbreviation(rkind[r])>> \o rtext[r] \o <<"\n">>

\* l.f.WriteString(line): the line as it is
WriteString(line) == line

\* fmt.Fprintf(w, line), the line being the format and there being no
\* operands: "%%" prints "%", a '%' before any other character c prints
\* "%!c(MISSING)", and a '%' that ends the format prints "%!(NOVERB)"
RECURSIVE Fprintf(_)
Fprintf(format) ==
    IF format = <<>> THEN <<>>
    ELSE IF Head(format) # "%" THEN <<Head(format)>> \o Fprintf(Tail(format))
    ELSE IF Len(format) = 1 THEN <<"%!(NOVERB)">>
    ELSE IF format[2] = "%" THEN <<"%">> \o Fprintf(SubSeq(format, 3, Len(format)))
    ELSE <<"%!", format[2], "(MISSING)">> \o Fprintf(SubSeq(format, 3, Len(format)))

\* the test replaces exitHandler by one that sets a flag and returns
SetExitHandler ==
    /\ Running /\ lpc = "none" /\ exitHandler = "osExit"
    /\ exitHandler' = "flag"
    /\ UNCHANGED <<s2sVars, c2sVars, inst, recCh, f, fOut, outWriter, exitCalls, continueCh,
                   rkind, rtext, lpc, shpc, wpc, wkind, winst, wrec>>

\* Initialize: newLogger makes the channels and starts the loop
Initialize ==
    /\ Running /\ lpc = "none" /\ shpc = "idle"
    /\ inst' = "set"
    /\ lpc' = "select"
    /\ UNCHANGED <<s2sVars, c2sVars, exitHandler, recCh, f, fOut, outWriter, exitCalls,
                   continueCh, rkind, rtext, shpc, wpc, wkind, winst, wrec>>

\* a log function reads the singleton: instance() under instMu.RLock; Fatal
\* reads the variable inst itself
Log_Instance(w, kind, text) ==
    /\ Running /\ wpc[w] \in {"idle", "ret"}
    /\ kind = "Fatal" \/ shpc # "send"
    /\ FreshRecord # None
    /\ wkind' = [wkind EXCEPT ![w] = kind]
    /\ winst' = [winst EXCEPT ![w] = inst]
    /\ IF inst = "nil"
       THEN /\ UNCHANGED <<rkind, rtext>>
            /\ wrec' = [wrec EXCEPT ![w] = None]
            /\ IF kind = "Fatal"
               THEN \* inst.writeLog on the nil *Logger: l.recCh dereferences nil
                    /\ proc' = "panicked"
                    /\ wpc' = [wpc EXCEPT ![w] = "writeLog"]
               ELSE /\ proc' = proc
                    /\ wpc' = [wpc EXCEPT ![w] = "ret"]
       ELSE \* the record writeLog is about to build
            /\ rkind' = [rkind EXCEPT ![FreshRecord] = kind]
            /\ rtext' = [rtext EXCEPT ![FreshRecord] = text]
            /\ wrec' = [wrec EXCEPT ![w] = FreshRecord]
            /\ proc' = proc
            /\ wpc' = [wpc EXCEPT ![w] = "writeLog"]
    /\ UNCHANGED <<listening, ln, outConns, inConns, startPc, spc, sres,
                   sweepVisited, cpc, cpair, cstm, cres, hstate, hpair,
                   istate, toRegister, dialCount, lnCloseCount, bindCount, bindFailed>>
    /\ UNCHANGED <<c2sVars, inst, exitHandler, recCh, f, fOut, outWriter, exitCalls,
                   continueCh, lpc, shpc>>

\* mutant: a plain send, which waits for room in the channel
Log_WriteLog_Blocking(w) ==
    /\ Running /\ wpc[w] = "writeLog"
    /\ Len(recCh) < LogChanBufferSize
    /\ recCh' = Append(recCh, wrec[w])
    /\ wpc' = [wpc EXCEPT ![w] = IF Async(wkind[w]) THEN "ret" ELSE "wait"]
    /\ UNCHANGED <<s2sVars, c2sVars, inst, exitHandler, f, fOut, outWriter, exitCalls,
                   continueCh, rkind, rtext, lpc, shpc, wkind, winst, wrec>>

\* writeLog: the select sends the record if the channel has room, and
\* otherwise takes the default branch, which drops it
Log_WriteLog(w) ==
    /\ Running /\ wpc[w] = "writeLog"
    /\ IF Len(recCh) < LogChanBufferSize
       THEN /\ recCh' = Append(recCh, wrec[w])
            /\ wpc' = [wpc EXCEPT ![w] = IF Async(wkind[w]) THEN "ret" ELSE "wait"]
       ELSE /\ recCh' = recCh
            /\ wpc' = [wpc EXCEPT ![w] = "ret"]
    /\ UNCHANGED <<s2sVars, c2sVars, inst, exitHandler, f, fOut, outWriter, exitCalls,
                   continueCh, rkind, rtext, lpc, shpc, wkind, winst, wrec>>

\* writeLog: <-entry.continueCh returns once the channel is closed
Log_Continue(w) ==
    /\ Running /\ wpc[w] = "wait"
    /\ wrec[w] \in continueCh
    /\ wpc' = [wpc EXCEPT ![w] = "ret"]
    /\ UNCHANGED <<s2sVars, c2sVars, inst, exitHandler, recCh, f, fOut, outWriter, exitCalls,
                   continueCh, rkind, rtext, lpc, shpc, wkind, winst, wrec>>

\* loop: case rec := <-l.recCh: the line goes to the file and to the
\* console; a fatal record calls exitHandler; close(rec.continueCh)
Loop_Record ==
    /\ Running /\ lpc = "select"
    /\ recCh # <<>>
    /\ LET rec == Head(recCh) IN
        /\ recCh' = Tail(recCh)
        /\ fOut' = Append(fOut, [rec |-> rec, line |-> WriteString(Line(rec))])
        /\ outWriter' = Append(outWriter, [rec |-> rec, line |-> Fprintf(Line(rec))])
        /\ IF FatalLevel(rkind[rec])
           THEN /\ exitCalls' = exitCalls \cup {rec}
                /\ IF exitHandler = "osExit"
                   THEN proc' = "exited" /\ continueCh' = continueCh
                   ELSE proc' = proc /\ continueCh' = continueCh \cup {rec}
           ELSE /\ exitCalls' = exitCalls
                /\ proc' = proc
                /\ continueCh' = continueCh \cup {rec}
    /\ UNCHANGED <<listening, ln, outConns, inConns, startPc, spc, sres,
                   sweepVisited, cpc, cpair, cstm, cres, hstate, hpair,
                   istate, toRegister, dialCount, lnCloseCount, bindCount, bindFailed>>
    /\ UNCHANGED <<c2sVars, inst, exitHandler, f, rkind, rtext, lpc, shpc, wpc, wkind,
                   winst, wrec>>

\* Shutdown: instMu.Lock(); not initialized: return
Shutdown_Lock ==
    /\ Running /\ shpc = "idle"
    /\ shpc' = IF inst = "nil" THEN "done" ELSE "send"
    /\ UNCHANGED <<s2sVars, c2sVars, inst, exitHandler, recCh, f, fOut, outWriter, exitCalls,
                   continueCh, rkind, rtext, lpc, wpc, wkind, winst, wrec>>

\* Shutdown's inst.closeCh <- true meets the loop's case <-l.closeCh: the
\* loop closes the file and returns; Shutdown clears inst and unlocks
Loop_Close ==
    /\ Running /\ lpc = "select" /\ shpc = "send"
    /\ f' = "closed"
    /\ lpc' = "returned"
    /\ inst' = "nil"
    /\ shpc' = "done"
    /\ UNCHANGED <<s2sVars, c2sVars, exitHandler, recCh, fOut, outWriter, exitCalls,
                   continueCh, rkind, rtext, wpc, wkind, winst, wrec>>

LogKinds == {"Infof", "Fatalf", "Fatal"}

LogNext ==
    \/ SetExitHandler
    \/ Initialize
    \/ \E w \in Loggers, kind \in LogKinds, text \in PlainTexts : Log_Instance(w, kind, text)
    \/ \E w \in Loggers : Log_WriteLog(w)
    \/ \E w \in Loggers : Log_Continue(w)
    \/ Loop_Record
    \/ Shutdown_Lock
    \/ Loop_Close

LogSpec == Init /\ [][LogNext]_vars

\* the logger with its goroutines scheduled: the loop takes a step when one
\* of its select's cases is ready, and a caller inside writeLog goes on
\* when it can
LogFairSpec ==
    /\ Init /\ [][LogNext]_vars
    /\ WF_vars(Loop_Record \/ Loop_Close)
    /\ \A w \in Loggers : WF_vars(Log_WriteLog(w) \/ Log_Continue(w))

\* the logger under asynchronous calls whose texts may hold a '%'
LogTextNext ==
    \/ Initialize
    \/ \E w \in Loggers, text \in Texts : Log_Instance(w, "Infof", text)
    \/ \E w \in Loggers : Log_WriteLog(w)
    \/ Loop_Record
    \/ Shutdown_Lock
    \/ Loop_Close

LogTextSpec == Init /\ [][LogTextNext]_vars

\* ------------------------------------------------------------ c2s

\* mutant: the loop over the servers stops short of those that return an error
ShutdownAll_StopOnError(srvs, errs) == srvs \ errs

\* Initialize's closing loop: srv.shutdown() is called on every server of
\* the map; one that returns an error (errs) is logged and the loop goes on
ShutdownAll(srvs, errs) == srvs

\* Initialize: mu.Lock(); already initialized: unlock and return; an empty
\* configuration list: log.Error and return, the mutex still locked
C2s_Initialize_Lock(i, cfg) ==
    /\ Running /\ ipc[i] = "idle"
    /\ mu = None
    /\ icfg' = [icfg EXCEPT ![i] = cfg]
    /\ IF initialized
       THEN mu' = None /\ ipc' = [ipc EXCEPT ![i] = "ret"]
       ELSE IF cfg = {}
       THEN mu' = i /\ ipc' = [ipc EXCEPT ![i] = "ret"]
       ELSE mu' = i /\ ipc' = [ipc EXCEPT ![i] = "init"]
    /\ UNCHANGED <<s2sVars, logVars, initialized, servers, idone, kpc, kclosed,
                   startCount, shutdownCount>>

\* Initialize: initializeServer for every configuration (servers[cfg.ID] =
\* srv; go srv.start(); its error is always nil); initialized = true;
\* mu.Unlock()
C2s_Initialize_Servers(i) ==
    /\ Running /\ ipc[i] = "init"
    /\ servers' = servers \cup icfg[i]
    /\ startCount' = [v \in ServerIds |-> IF v \in icfg[i] THEN startCount[v] + 1
                                          ELSE startCount[v]]
    /\ initialized' = TRUE
    /\ mu' = None
    /\ ipc' = [ipc EXCEPT ![i] = "wait"]
    /\ UNCHANGED <<s2sVars, logVars, icfg, idone, kpc, kclosed, shutdownCount>>

\* Shutdown: ch := make(chan struct{})
C2s_Shutdown_Make(k) ==
    /\ Running /\ kpc[k] = "idle"
    /\ kpc' = [kpc EXCEPT ![k] = "send"]
    /\ UNCHANGED <<s2sVars, logVars, mu, initialized, servers, ipc, icfg, idone, kclosed,
                   startCount, shutdownCount>>

\* Shutdown's shutdownCh <- ch meets Initialize's doneCh := <-shutdownCh
\* (the channel is unbuffered)
C2s_Receive(i, k) ==
    /\ Running /\ ipc[i] = "wait" /\ kpc[k] = "send"
    /\ idone' = [idone EXCEPT ![i] = k]
    /\ ipc' = [ipc EXCEPT ![i] = "relock"]
    /\ kpc' = [kpc EXCEPT ![k] = "wait"]
    /\ UNCHANGED <<s2sVars, logVars, mu, initialized, servers, icfg, kclosed,
                   startCount, shutdownCount>>

\* Initialize: mu.Lock() after the receive
C2s_Relock(i) ==
    /\ Running /\ ipc[i] = "relock"
    /\ mu = None
    /\ mu' = i
    /\ ipc' = [ipc EXCEPT ![i] = "close"]
    /\ UNCHANGED <<s2sVars, logVars, initialized, servers, icfg, idone, kpc, kclosed,
                   startCount, shutdownCount>>

\* Initialize: the loop over servers (srv.shutdown(), log.Error on an
\* error, delete(servers, k)), then close(doneCh)
C2s_CloseServers(i, errs) ==
    /\ Running /\ ipc[i] = "close"
    /\ errs \subseteq servers
    /\ shutdownCount' = [v \in ServerIds |->
                            IF v \in ShutdownAll(servers, errs) THEN shutdownCount[v] + 1
                            ELSE shutdownCount[v]]
    /\ servers' = servers \ ShutdownAll(servers, errs)
    /\ kclosed' = kclosed \cup {idone[i]}
    /\ ipc' = [ipc EXCEPT ![i] = "clear"]
    /\ UNCHANGED <<s2sVars, logVars, mu, initialized, icfg, idone, kpc, startCount>>

\* Initialize: initialized = false; mu.Unlock(); return
C2s_Clear(i) ==
    /\ Running /\ ipc[i] = "clear"
    /\ initialized' = FALSE
    /\ mu' = None
    /\ ipc' = [ipc EXCEPT ![i] = "ret"]
    /\ UNCHANGED <<s2sVars, logVars, servers, icfg, idone, kpc, kclosed,
                   startCount, shutdownCount>>

\* Shutdown: <-ch returns once the channel is closed
C2s_Shutdown_Return(k) ==
    /\ Running /\ kpc[k] = "wait"
    /\ k \in kclosed
    /\ kpc' = [kpc EXCEPT ![k] = "ret"]
    /\ UNCHANGED <<s2sVars, logVars, mu, initialized, servers, ipc, icfg, idone, kclosed,
                   startCount, shutdownCount>>

\* the steps of an Initialize call once it is under way, and of a Shutdown
\* call once it has made its channel: what the scheduler runs
C2sRun ==
    \/ \E i \in Initializers : C2s_Initialize_Servers(i)
    \/ \E i \in Initializers, k \in Shutdowns : C2s_Receive(i, k)
    \/ \E i \in Initializers : C2s_Relock(i)
    \/ \E i \in Initializers, errs \in SUBSET ServerIds : C2s_CloseServers(i, errs)
    \/ \E i \in Initializers : C2s_Clear(i)
    \/ \E k \in Shutdowns : C2s_Shutdown_Return(k)

C2sNext ==
    \/ \E i \in Initializers, cfg \in SUBSET ServerIds : C2s_Initialize_Lock(i, cfg)
    \/ \E k \in Shutdowns : C2s_Shutdown_Make(k)
    \/ C2sRun

\* a goroutine that can take a step is eventually scheduled
C2sSpec == Init /\ [][C2sNext]_vars /\ WF_vars(C2sRun)

\* ------------------------------------------------------------ outbound registry claims

\* the outbound streams of pair p that are reserved or running
Live(p) == {h \in Handles : hpair[h] = p /\ hstate[h] \in {"pending", "established"}}

\* c's step is a getOrDial call (its LoadOrStore) that changed c's state
CallStep(c) ==
    /\ cpc[c] \in {"idle", "done"}
    /\ <<cpc[c], cpair[c], cstm[c], cres[c]>> # <<cpc'[c], cpair'[c], cstm'[c], cres'[c]>>

\* C1: while a pair's slot is reserved (its dial in flight) at most one
\* caller dials for the pair, the Dialer is invoked at most once for the
\* reserved stream, exactly one caller owns the dial, and all callers that
\* hold a reserved stream of the pair hold the same one, the registry's.
C1_SingleDialPerPair ==
    /\ \A p \in Pairs :
         Cardinality({c \in Callers : cpc[c] = "dial" /\ cpair[c] = p}) <= 1
    /\ \A h \in Handles :
         /\ dialCount[h] <= 1
         /\ hstate[h] \in {"failed", "established", "closed"} => dialCount[h] = 1
         /\ hstate[h] = "pending" =>
              /\ outConns[hpair[h]] = h
              /\ Cardinality({c \in Callers : cpc[c] \in {"dial", "start"} /\ cstm[c] = h}) = 1
    /\ \A c1, c2 \in Callers :
         (/\ cstm[c1] # None /\ cstm[c2] # None
          /\ cpair[c1] = cpair[c2]
          /\ hstate[cstm[c1]] = "pending" /\ hstate[cstm[c2]] = "pending")
         => cstm[c1] = cstm[c2]

\* two callers hold the same reserved stream while its dial is in flight
C1_Witness ==
    \E c1, c2 \in Callers :
        /\ c1 # c2
        /\ cpc[c1] = "dial" /\ cpc[c2] = "done" /\ cres[c2] = "ok"
        /\ cstm[c1] = cstm[c2] /\ cpair[c1] = cpair[c2]

\* C2: a reserved or running stream is the registry's entry of its pair,
\* so each pair has at most one of them; and a getOrDial call that finds
\* the pair's entry returns that very stream with a nil error, stores
\* nothing and invokes no Dialer.
C2_LiveIsRegistered ==
    \A p \in Pairs :
        /\ Cardinality(Live(p)) <= 1
        /\ \A h \in Live(p) : outConns[p] = h

C2_LoadedStep ==
    \A c \in Callers :
        (CallStep(c) /\ outConns[cpair'[c]] # None)
        => /\ cstm'[c] = outConns[cpair'[c]]
           /\ cpc'[c] = "done" /\ cres'[c] = "ok"
           /\ outConns' = outConns
           /\ hstate' = hstate
           /\ dialCount' = dialCount

\* C2: at most one reserved or running outbound stream per pair, always, and
\* every getOrDial call that finds an entry returns it without dialling.
C2_SameHandleNoDial == []C2_LiveIsRegistered /\ [][C2_LoadedStep]_vars

\* a second caller was handed the running stream of the first
C2_Witness ==
    \E c1, c2 \in Callers :
        /\ c1 # c2
        /\ cpc[c1] = "done" /\ cpc[c2] = "done"
        /\ cres[c1] = "ok" /\ cres[c2] = "ok"
        /\ cstm[c1] = cstm[c2] /\ cstm[c1] # None
        /\ hstate[cstm[c1]] = "established"
        /\ dialCount[cstm[c1]] = 1

\* C3: the step in which unregisterOutStream runs for a stream leaves its
\* pair without an entry, and a getOrDial call for a pair without an entry
\* stores a stream never used before and goes on to dial.
C3_UnregisterStep ==
    \A h \in Handles :
        (hstate[h] = "established" /\ hstate'[h] = "closed")
        => outConns'[hpair[h]] = None

C3_CreateStep ==
    \A c \in Callers :
        (CallStep(c) /\ outConns[cpair'[c]] = None)
        => /\ cpc'[c] = "dial"
           /\ cstm'[c] # None
           /\ hstate[cstm'[c]] = "unused" /\ hstate'[cstm'[c]] = "pending"
           /\ outConns'[cpair'[c]] = cstm'[c]
           /\ dialCount'[cstm'[c]] = 0

\* C3: unregisterOutStream frees the pair's key, and a getOrDial call on a
\* free key reserves a new stream and dials.
C3_FreshDialAfterUnregister == [][C3_UnregisterStep /\ C3_CreateStep]_vars

\* a pair whose stream was unregistered has been dialled a second time
C3_Witness ==
    \E h1, h2 \in Handles :
        /\ h1 # h2 /\ hpair[h1] = hpair[h2]
        /\ hstate[h1] = "closed"
        /\ hstate[h2] = "established" /\ dialCount[h2] = 1
        /\ outConns[hpair[h2]] = h2

\* C4: the step in which the dialling caller returns after a failed dial
\* returns the error and no stream, leaves the pair without an entry and
\* invokes no further dial; the failed stream was dialled exactly once.
C4_RollbackStep ==
    \A c \in Callers :
        (cpc[c] = "rollback" /\ cpc'[c] # "rollback")
        => /\ cpc'[c] = "done" /\ cres'[c] = "err" /\ cstm'[c] = None
           /\ hstate[cstm[c]] = "failed" /\ dialCount[cstm[c]] = 1
           /\ outConns'[cpair[c]] = None
           /\ dialCount' = dialCount

\* C4: every return after a failed dial is an error return that leaves the
\* pair's key free and dials no more.
C4_DialFailureRollsBack == [][C4_RollbackStep]_vars

\* a caller got the dial error, and the pair has been dialled again since
C4_Witness ==
    \E c \in Callers, h1, h2 \in Handles :
        /\ cpc[c] = "done" /\ cres[c] = "err"
        /\ h1 # h2 /\ hpair[h1] = cpair[c] /\ hpair[h2] = cpair[c]
        /\ hstate[h1] = "failed" /\ hstate[h2] = "pending"
        /\ outConns[cpair[c]] = h2

\* ------------------------------------------------------------ lifecycle claims

\* the stop() calls that won the compare-and-swap
Winners == {s \in Stoppers : spc[s] \in {"close", "sweepOut", "sweepIn", "done"}}

\* C5: at most one stop() call wins the compare-and-swap and the socket is
\* closed at most once; a stop() call on a Listening server wins; a call
\* that loses returns nil in that very step, which touches neither the
\* socket nor a registry nor a stream, and does nothing afterwards.
C5_OneWinner ==
    /\ Cardinality(Winners) <= 1
    /\ lnCloseCount <= 1
    /\ lnCloseCount = 1 => Winners # {}
    /\ \A s \in Stoppers : spc[s] = "noop" => sres[s] = "nil"

C5_CasStep ==
    \A s \in Stoppers :
        /\ (spc[s] = "idle" /\ spc'[s] # "idle") =>
              /\ listening = 1 => (spc'[s] = "close" /\ listening' = 0)
              /\ listening # 1 => spc'[s] = "noop"
              /\ spc'[s] = "noop" =>
                    /\ sres'[s] = "nil"
                    /\ UNCHANGED <<listening, ln, lnCloseCount, inConns, outConns,
                                   sweepVisited, istate, hstate, proc>>
        /\ spc[s] = "noop" => spc'[s] = "noop"

\* C5: one stop() call at most closes the socket and sweeps; every losing
\* call is a no-op that returns nil.
C5_StopIdempotent == []C5_OneWinner /\ [][C5_CasStep]_vars

\* one stop() call closed the socket and returned, another was a no-op
C5_Witness ==
    \E s1, s2 \in Stoppers :
        /\ spc[s1] = "done" /\ sres[s1] = "nil"
        /\ spc[s2] = "noop"
        /\ lnCloseCount = 1 /\ ln = "closed"

\* C6: once the winning stop() call is over, nothing aborted its sweep and
\* every stream registered in either registry has received Disconnect
\* (violated: the sweep over outConns panics on its first entry, and a
\* socket-close error returns before any sweep).
C6_StopDisconnectsAll ==
    (proc = "panicked" \/ \E s \in Stoppers : spc[s] = "done")
    => /\ proc # "panicked"
       /\ inConns \subseteq sweepVisited
       /\ \A p \in Pairs : outConns[p] = None

\* C7: once a stop() call has returned, the server is not Listening
\* (violated: a stop() that runs before listenConn stores the flag loses the
\* compare-and-swap, and the server listens from then on).
C7_StoppedNotListening ==
    (\E s \in Stoppers : spc[s] \in {"noop", "done"}) => listening # 1

\* C8: after a failed bind start() is at its Fatalf call or behind it, the
\* bind was tried once, the flag is not Listening, there is no listener,
\* no accept loop, and no inbound stream was created or registered.
C8_BindFailureIsFatal ==
    bindFailed =>
        /\ startPc \in {"fatal", "done"}
        /\ bindCount = 1
        /\ listening = 0
        /\ ln = "nil"
        /\ inConns = {} /\ toRegister = {}
        /\ \A i \in InIds : istate[i] = "unused"
        /\ Winners = {} /\ proc # "panicked"

\* the bind failed, Fatalf ended the process, and a stop() call had run
C8_Witness ==
    /\ bindFailed /\ proc = "exited"
    /\ \E s \in Stoppers : spc[s] = "noop"

\* C9: the step in which unregisterInStream runs for a stream removes that
\* stream's id and nothing else from the inbound registry and leaves the
\* outbound registry alone; for an id that is not registered it changes
\* nothing, and running it again on the result changes nothing.
C9_UnregisterStep ==
    \A id \in InIds :
        (istate[id] = "active" /\ istate'[id] = "closed")
        => /\ \A j \in InIds \ {id} : (j \in inConns') <=> (j \in inConns)
           /\ id \notin inConns'
           /\ id \notin inConns => inConns' = inConns
           /\ DeleteIn(inConns', id) = inConns'
           /\ outConns' = outConns /\ hstate' = hstate

\* C9: every unregisterInStream step removes its own id only, is a no-op on
\* an absent id, and is idempotent.
C9_UnregisterInNoOp == [][C9_UnregisterStep]_vars

\* unregisterInStream has run for a stream that was not registered (it is
\* still on its way to registerInStream), while another stream is registered
C9_Witness ==
    \E id, j \in InIds :
        /\ id # j
        /\ istate[id] = "closed" /\ id \in toRegister /\ id \notin inConns
        /\ j \in inConns

\* ------------------------------------------------------------ logger claims

\* C10: a Fatalf call that found a logger installed has, when it returns,
\* its record written to the output and the exit handler invoked for it
\* (violated: with the record channel full, writeLog's default branch
\* drops the record and Fatalf returns at once).
C10_FatalfSynchronous ==
    \A w \in Loggers :
        (wpc[w] = "ret" /\ wkind[w] = "Fatalf" /\ winst[w] = "set")
        => /\ wrec[w] # None
           /\ \E i \in 1..Len(outWriter) : outWriter[i].rec = wrec[w]
           /\ wrec[w] \in exitCalls

\* C11: a Fatal call that has returned has its record, a fatal-level one
\* with the error's text, written to the output
\* (violated: Fatal passes async = true to writeLog, which returns as soon as
\* the record is queued; the loop writes it later, or never).
C11_FatalSynchronous ==
    \A w \in Loggers :
        (wpc[w] = "ret" /\ wkind[w] = "Fatal")
        => \E i \in 1..Len(outWriter) :
              /\ outWriter[i].rec = wrec[w]
              /\ outWriter[i].line = Line(wrec[w])

\* C12: the file and the console have received the same lines in the same
\* order, and once Shutdown has stopped a logger its file is closed
\* (violated: the console line goes through fmt.Fprintf as a format, which
\* rewrites a '%' in the text, while the file gets the line as it is).
C12_FileEqualsConsole ==
    /\ fOut = outWriter
    /\ (shpc = "done" /\ lpc # "none") => (lpc = "returned" /\ f = "closed")

\* ------------------------------------------------------------ c2s claims

\* no Initialize call other than i is under way
NoOtherInitialize(i) == \A j \in Initializers \ {i} : ipc[j] \in {"idle", "ret"}

\* C13 as stated: once Shutdown has returned, the servers map is empty and
\* the subsystem is marked uninitialized
\* (violated: Initialize closes the done channel before it clears the flag,
\* so Shutdown can return while initialized is still true).
C13_ReturnedIsUninitialized ==
    \A i \in Initializers, k \in Shutdowns :
        (idone[i] = k /\ kpc[k] = "ret" /\ NoOtherInitialize(i))
        => (servers = {} /\ ~initialized)

C13_Returned ==
    \A i \in Initializers, k \in Shutdowns :
        /\ kpc[k] = "ret" => k \in kclosed
        /\ (idone[i] = k /\ kpc[k] = "ret" /\ NoOtherInitialize(i))
           => /\ servers = {}
              /\ initialized => (mu = i /\ ipc[i] = "clear")

C13_CloseStep ==
    \A i \in Initializers :
        (ipc[i] = "close" /\ ipc'[i] # "close")
        => /\ \A v \in servers : shutdownCount'[v] = shutdownCount[v] + 1
           /\ servers' = {}
           /\ idone[i] \in kclosed' \ kclosed
           /\ mu = i /\ mu' = i

C13_ClearStep ==
    \A i \in Initializers :
        (mu = i /\ mu' # i /\ ipc[i] = "clear") => ~initialized'

\* C13, amended: the Initialize call that received a Shutdown call's channel
\* invokes shutdown once on every registered server, whatever errors they
\* return, empties the map and only then closes the channel; it clears the
\* flag before it releases the mutex, so that whoever takes the mutex after
\* Shutdown returned finds the subsystem uninitialized; a Shutdown call
\* whose channel was received returns, and a waiting Initialize receives
\* from some Shutdown call that is sending.
C13_ShutdownClosesServers ==
    /\ []C13_Returned
    /\ [][C13_CloseStep /\ C13_ClearStep]_vars
    /\ \A k \in Shutdowns : (\E i \in Initializers : idone[i] = k) ~> (kpc[k] = "ret")
    /\ ((\E i \in Initializers : ipc[i] = "wait") /\ (\E k \in Shutdowns : kpc[k] = "send"))
          ~> (\A i \in Initializers : ipc[i] # "wait")

\* Shutdown returned after an Initialize call shut two servers down, one
\* Initialize call returned early, and the flag is cleared
C13_Witness ==
    \E i \in Initializers, k \in Shutdowns :
        /\ idone[i] = k /\ kpc[k] = "ret" /\ ipc[i] = "ret"
        /\ icfg[i] = ServerIds
        /\ \A v \in ServerIds : shutdownCount[v] = 1 /\ startCount[v] = 1
        /\ servers = {} /\ ~initialized /\ mu = None

\* ------------------------------------------------------------ accept loop claims

C14_LoopStep ==
    /\ (startPc = "loop" /\ startPc' # "loop")
         => /\ listening = 1 => startPc' = "accept"
            /\ listening # 1 => startPc' = "done"
    /\ (startPc = "accept" /\ startPc' # "accept") => startPc' = "loop"
    /\ ln = "closed" => /\ \A id \in InIds : istate[id] = "unused" => istate'[id] = "unused"
                        /\ toRegister' \subseteq toRegister
    /\ startPc = "done" => startPc' = "done"

\* C14: the loop leaves its condition for Accept when the flag reads 1 and
\* for its end when it does not; whatever Accept returns, an error
\* included, the loop goes back to its condition; once the socket is closed
\* no connection is accepted; and after a stop() call has won the
\* compare-and-swap and closed the socket the loop ends.
C14_AcceptLoopFollowsFlag ==
    /\ [][C14_LoopStep]_vars
    /\ [](ln = "closed" => listening = 0)
    /\ (ln = "closed") ~> (startPc = "done")

\* the loop accepted a connection, stop() closed the socket, the loop ended
C14_Witness ==
    /\ startPc = "done" /\ ln = "closed" /\ lnCloseCount = 1 /\ listening = 0
    /\ bindCount = 1 /\ ~bindFailed
    /\ \E id \in InIds : istate[id] # "unused"

\* ------------------------------------------------------------ dialling and shutdown claims

\* C15: once a stop() call has closed the socket and finished, no outbound
\* stream is running and registered
\* (violated: getOrDial never reads the flag and there is no draining mark;
\* a dial that completes after the sweep starts its stream and leaves it
\* registered).
C15_NoLiveLinkAfterStop ==
    (\E s \in Stoppers : spc[s] = "done" /\ sres[s] = "nil")
    => \A p \in Pairs :
          outConns[p] # None => hstate[outConns[p]] # "established"

\* the step changes the entry of pair p on behalf of pair p only: it is a
\* getOrDial call for p or the end of a stream of p
ActsFor(p) ==
    \/ \E c \in Callers : cpc'[c] # cpc[c] /\ cpair'[c] = p
    \/ \E h \in Handles : hstate[h] = "established" /\ hstate'[h] = "closed" /\ hpair[h] = p

C16_FrameStep ==
    /\ \A p \in Pairs : outConns'[p] # outConns[p] => ActsFor(p)
    /\ inConns' = inConns /\ istate' = istate /\ toRegister' = toRegister

\* while some caller is inside the Dialer, a call for another pair can
\* store its stream, and a call that has stored can dial and start
C16_NotBlocked ==
    \A c1, c2 \in Callers, q \in Pairs :
        (cpc[c1] = "dial" /\ c1 # c2 /\ cpair[c1] # q)
        => /\ (cpc[c2] \in {"idle", "done"} /\ (outConns[q] = None => FreshHandle # None))
               => ENABLED GetOrDial_LoadOrStore(c2, q)
           /\ cpc[c2] = "dial" => ENABLED GetOrDial_DialOk(c2)
           /\ cpc[c2] = "start" => ENABLED GetOrDial_Start(c2)

\* C16: a step changes the registry entry of a pair only when it is a
\* getOrDial or unregisterOutStream step for that pair, and never an
\* inbound entry; and a dial in flight for one pair keeps no call for
\* another pair from storing, dialling and returning.
C16_PairsIndependent == []C16_NotBlocked /\ [][C16_FrameStep]_vars

\* a call for one pair stored, dialled and returned a running stream while
\* an earlier call for another pair is still inside the Dialer
C16_Witness ==
    \E c1, c2 \in Callers :
        /\ cpc[c1] = "dial" /\ cpc[c2] = "done" /\ cres[c2] = "ok"
        /\ cpair[c1] # cpair[c2]
        /\ cstm[c1] < cstm[c2]
        /\ hstate[cstm[c2]] = "established" /\ outConns[cpair[c2]] = cstm[c2]
        /\ outConns[cpair[c1]] = cstm[c1]

\* ------------------------------------------------------------ asynchronous logging claims

\* the records the channel has accepted, in order: those written, then
\* those still queued
Accepted == [i \in 1..Len(outWriter) |-> outWriter[i].rec] \o recCh

C17_CanReturn ==
    \A w \in Loggers :
        (Running /\ wpc[w] = "writeLog" /\ wkind[w] = "Infof")
        => ENABLED Log_WriteLog(w)

C17_WriteLogStep ==
    \A w \in Loggers :
        (wpc[w] = "writeLog" /\ wpc'[w] # "writeLog" /\ wkind[w] = "Infof")
        => /\ wpc'[w] = "ret"
           /\ Len(recCh) < LogChanBufferSize => recCh' = Append(recCh, wrec[w])
           /\ Len(recCh) >= LogChanBufferSize => (recCh' = recCh /\ Accepted' = Accepted)

C17_FifoStep ==
    /\ \/ Accepted' = Accepted
       \/ \E r \in Records : Accepted' = Append(Accepted, r)
    /\ \A i \in 1..Len(fOut) : fOut'[i] = fOut[i]
    /\ \A i \in 1..Len(outWriter) : outWriter'[i] = outWriter[i]

\* C17: an asynchronous call that has reached writeLog's select can always
\* take its step, which returns: with room in the channel the record is
\* queued, without room it is dropped and nothing changes; the accepted
\* records, written and queued, only grow at the tail, so they are written
\* in the order they were queued.
C17_AsyncNeverBlocks == []C17_CanReturn /\ [][C17_WriteLogStep /\ C17_FifoStep]_vars

\* an asynchronous call returned with its record dropped, and two records
\* were written in the order they were queued, which is not the order
\* their calls began
C17_Witness ==
    \E w \in Loggers :
        /\ wpc[w] = "ret" /\ wkind[w] = "Infof" /\ wrec[w] = 3
        /\ \A i \in 1..Len(Accepted) : Accepted[i] # 3
        /\ Len(outWriter) = 2 /\ outWriter[1].rec = 2 /\ outWriter[2].rec = 1
        /\ \A r \in Records : rkind[r] = "Infof"

\* ------------------------------------------------------------ registry hygiene claims

\* C18: every stream in the inbound registry is an active one
\* (violated: a stream that ends between newInStream and registerInStream
\* has its unregister callback run on an absent key, and is stored
\* afterwards, for good).
C18_InboundOnlyActive ==
    \A id \in inConns : istate[id] = "active"

C19_Registered ==
    \A p \in Pairs :
        outConns[p] # None =>
            /\ hpair[outConns[p]] = p
            /\ hstate[outConns[p]] \in {"pending", "failed", "established"}
            /\ hstate[outConns[p]] = "failed" =>
                  \E c \in Callers : cpc[c] = "rollback" /\ cstm[c] = outConns[p]

C19_RemovalStep ==
    /\ \A c \in Callers :
          (cpc[c] = "rollback" /\ cpc'[c] # "rollback")
          => (outConns[cpair[c]] = cstm[c] /\ outConns'[cpair[c]] = None)
    /\ \A h \in Handles :
          (hstate[h] = "established" /\ hstate'[h] = "closed")
          => (outConns[hpair[h]] = h /\ outConns'[hpair[h]] = None)
    /\ \A p \in Pairs :
          (outConns[p] # None /\ outConns'[p] # outConns[p])
          => /\ outConns'[p] = None
             /\ \/ \E c \in Callers : /\ cpc[c] = "rollback" /\ cpc'[c] = "done"
                                       /\ cstm[c] = outConns[p]
                \/ /\ hstate[outConns[p]] = "established"
                   /\ hstate'[outConns[p]] = "closed"
    /\ \A h \in Handles :
          (hstate[h] # "unused" /\ \A p \in Pairs : outConns[p] # h)
          => \A p \in Pairs : outConns'[p] # h

\* C19: a rollback and a stream's terminal callback each find their own
\* stream under the pair's key and remove it; an entry leaves the registry
\* in no other way, and a stream that has left is never stored again, so
\* each stream is removed once and no delete takes a newer stream.
C19_RemovesOwnHandleOnce == []C19_Registered /\ [][C19_RemovalStep]_vars

\* a pair's first stream was rolled back, its second ended, its third is
\* registered
C19_Witness ==
    \E p \in Pairs, h1, h2, h3 \in Handles :
        /\ hpair[h1] = p /\ hpair[h2] = p /\ hpair[h3] = p
        /\ hstate[h1] = "failed" /\ hstate[h2] = "closed"
        /\ hstate[h3] = "established" /\ outConns[p] = h3

\* C20: a stream that a getOrDial call returned with a nil error is one
\* whose dial is pending or succeeded
\* (violated: a caller that loaded the reserved stream keeps it as its
\* result when the winner's dial fails and the slot is rolled back).
C20_ReturnedHandleIsDialled ==
    \A c \in Callers :
        (cpc[c] = "done" /\ cres[c] = "ok")
        => hstate[cstm[c]] \in {"pending", "established", "closed"}

\* ------------------------------------------------------------ termination and locking claims

\* C21: a Fatalf call that is under way returns, or the process ends
\* (violated: when the loop takes Shutdown's close request while the
\* call's record is still queued, the loop returns, nobody closes the
\* record's continueCh, and the call waits on it for ever).
C21_FatalfReturns ==
    \A w \in Loggers :
        (wkind[w] = "Fatalf" /\ wpc[w] \in {"writeLog", "wait"})
        ~> (wpc[w] = "ret" \/ ~Running)

\* C22: an Initialize call that has returned, or that waits for Shutdown,
\* does not hold the package mutex
\* (violated: with an empty configuration list Initialize returns without
\* mu.Unlock()).
C22_InitializeReleasesMutex ==
    \A i \in Initializers :
        ipc[i] \in {"wait", "relock", "ret"} => mu # i

====
